---- MODULE Spec2Model ----
(***************************************************************************)
(* Model of ibutton.cc: the bit-banged 1-wire byte codec and the DS1921L   *)
(* command protocol (oneShotConvert, setRTC, clearMem, missionStart and    *)
(* the verifyScratch / commitScratch steps of a scratchpad transaction).   *)
(*                                                                         *)
(* The program is modelled as a state machine that executes the functions  *)
(* statement by statement: pc holds the number of the source line that is  *)
(* about to execute, stack holds the return positions of the callers, and  *)
(* line records everything the host does on the 1-wire line, in order.     *)
(* What the device puts on the line (the level sampled by reset, the bits  *)
(* sampled by readBit) is an input, chosen nondeterministically.           *)
(***************************************************************************)
EXTENDS Integers, Sequences, FiniteSets, TLC

VARIABLES
    op,             \* the function the caller invoked ("none" before any call)
    fn,             \* the function executing now ("idle" between calls)
    pc,             \* the source line about to execute (a string, "0" when idle)
    stack,          \* return positions of the callers: <<fn, pc>> pairs
    line,           \* the line activity so far of the current call of op
    check,          \* local check of oneShotConvert / setRTC
    tm,             \* the broken-down time setRTC got from localtime()
    delay,          \* missionStart's parameter delay
    creg,           \* missionStart's parameter creg
    address,        \* parameter address of verifyScratch / commitScratch
    length,         \* parameter length of verifyScratch / commitScratch
    returnaddress,  \* local of verifyScratch
    returnlen,      \* local of verifyScratch
    endoffset,      \* local of verifyScratch / commitScratch
    vret,           \* value returned by the last verifyScratch
    temperature,    \* value returned by oneShotConvert, in half degrees
    byte,           \* loop-back harness: the value handed to writeByte
    wire,           \* loop-back harness: the bits writeByte put on the line
    got             \* loop-back harness: the value readByte returned

vars == <<op, fn, pc, stack, line, check, tm, delay, creg, address, length,
          returnaddress, returnlen, endoffset, vret, temperature,
          byte, wire, got>>

ctl == <<fn, pc, stack>>
loop == <<byte, wire, got>>
scratchArgs == <<address, length>>
scratchLocals == <<returnaddress, returnlen, endoffset>>
opArgs == <<tm, delay, creg>>

----------------------------------------------------------------------------
(* Program constants (#define) *)

READROM == 51           \* 0x33
SKIPROM == 204          \* 0xCC
WRITESCRATCH == 15      \* 0x0F
READSCRATCH == 170      \* 0xAA
COPYSCRATCH == 85       \* 0x55
READMEM == 240          \* 0xF0
CLEARMEM == 60          \* 0x3C
CONVERTTEMP == 68       \* 0x44
TEMPADDR == 529         \* 0x0211
RTCSECONDS == 512       \* 0x0200
CONTROLREG == 526       \* 0x020E
ENABLECLR == 64         \* 0b01000000
LOW == 0
HIGH == 1

----------------------------------------------------------------------------
(* Bounds of the model and the input sets drawn from them *)

MaxLen == 32            \* longest transaction length a caller requests

Levels == {LOW, HIGH}
AllBytes == 0..255

\* bytes the device may return in the three reads of verifyScratch
ReadVals == {0, 2, 5, 6, 14, 19, 255}

\* arguments of direct calls of verifyScratch / commitScratch
Addresses == {512, 526, 543, 0, 65535}
Lengths == {1, 7, MaxLen}

\* arguments of missionStart
Delays == {0, 1, 4660, 65535}
Cregs == {0, 64, 255}

\* results of localtime() seen by setRTC
\* (corner values of every field together, and each of seconds, minutes and
\* hours over its whole range with the other fields fixed)
BaseTime == [sec |-> 45, min |-> 59, hour |-> 10, wday |-> 0, mon |-> 0, year |-> 121]
Times ==
    [sec : {0, 59}, min : {0, 59}, hour : {0, 23},
     wday : {0, 6}, mon : {0, 11}, year : {121}]
    \cup {[BaseTime EXCEPT !.sec = s] : s \in 0..59}
    \cup {[BaseTime EXCEPT !.min = m] : m \in 0..59}
    \cup {[BaseTime EXCEPT !.hour = h] : h \in 0..23}
NoTime == [sec |-> 0, min |-> 0, hour |-> 0, wday |-> 0, mon |-> 0, year |-> 100]

----------------------------------------------------------------------------
(* C integer operators *)

RECURSIVE BitAnd(_, _)
BitAnd(a, b) ==
    IF a = 0 \/ b = 0 THEN 0
    ELSE (a % 2) * (b % 2) + 2 * BitAnd(a \div 2, b \div 2)

RECURSIVE BitOr(_, _)
BitOr(a, b) ==
    IF a = 0 THEN b
    ELSE IF b = 0 THEN a
    ELSE (IF a % 2 = 1 \/ b % 2 = 1 THEN 1 ELSE 0) + 2 * BitOr(a \div 2, b \div 2)

----------------------------------------------------------------------------
(* Byte and address codec *)

\* mutant of writeByte: the most significant bit goes first
RECURSIVE writeByteMsbFrom(_, _)
writeByteMsbFrom(b, i) ==
    IF i >= 8 THEN <<>>
    ELSE <<IF BitAnd(b, 128) # 0 THEN 1 ELSE 0>> \o writeByteMsbFrom((b * 2) % 256, i + 1)

writeByteMsb(b) == writeByteMsbFrom(b, 0)

\* writeByte: the arguments of the eight writeBit calls, in the order made
RECURSIVE writeByteFrom(_, _)
writeByteFrom(b, i) ==
    IF i >= 8 THEN <<>>
    ELSE <<IF BitAnd(b, 1) # 0 THEN 1 ELSE 0>> \o writeByteFrom(b \div 2, i + 1)

writeByte(b) == writeByteFrom(b, 0)

\* readByte: bits[i+1] is the value readBit returned in iteration i
RECURSIVE readByteFrom(_, _, _)
readByteFrom(bits, i, acc) ==
    IF i >= 8 THEN acc
    ELSE readByteFrom(bits, i + 1, BitOr(acc, bits[i + 1] * 2^i))

readByte(bits) == readByteFrom(bits, 0, 0)

\* mutant of writeAddr: the high byte is not shifted down
writeAddrNoShift(a) == <<BitAnd(a, 255), BitAnd(a, 255)>>

\* mutant of writeAddr: the high byte goes first
writeAddrHighFirst(a) == <<BitAnd(a \div 256, 255), BitAnd(a, 255)>>

\* writeAddr: the arguments of its two writeByte calls, in the order made
writeAddr(a) ==
    LET byte1 == BitAnd(a \div 256, 255)
        byte2 == BitAnd(a, 255)
    IN  <<byte2, byte1>>

\* the byte a 1-wire peer assembles from the eight slots of writeByte(b)
OnWire(b) == readByte(writeByte(b))

\* the slot sequences a peer may answer a readByte with
DeviceBits(vals) == {writeByte(v) : v \in vals}

----------------------------------------------------------------------------
(* Temperature and time codecs *)

\* mutant of Decode: the raw byte is not halved (readByte(pin) - 40.0)
DecodeNotHalved(raw) == 2 * raw - 80

\* readByte(pin) / 2.0 - 40.0, in half degrees
Decode(raw) == raw - 80

\* return -100, in half degrees
Sentinel == 0 - 200

\* mutant of Bcd: the value is sent in binary
BcdBinary(v) == v % 256

\* lowbyte = (v % 10) & 0x0F; highbyte = (v / 10) & 0x0F; (highbyte << 4) | lowbyte
Bcd(v) ==
    LET lowbyte == BitAnd(v % 10, 15)
        highbyte == BitAnd(v \div 10, 15)
    IN  BitOr(highbyte * 16, lowbyte) % 256

HourByte(h) ==
    LET lowbyte == BitAnd(h % 10, 15)
        highbyte == BitOr(BitOr(IF h > 10 THEN 1 ELSE 0,
                                (IF h > 20 THEN 1 ELSE 0) * 2), 4)
    IN  BitOr(highbyte * 16, lowbyte) % 256

WdayByte(w) == (w + 1) % 256

MonthByte(m) ==
    LET lowbyte == BitAnd((m + 1) % 10, 15)
        highbyte == BitAnd((m + 1) \div 10, 15)
    IN  BitOr(BitOr(128, highbyte * 16), lowbyte) % 256

YearByte(y) == Bcd(y - 100)

----------------------------------------------------------------------------
(* Scratchpad verification arithmetic *)

\* mutant of EndOffsetAdd: the sum is kept in four bits
EndOffsetAddNibble(eo, len) == (eo + len - 1) % 16

\* mutant of EndOffsetAdd: endoffset += length
EndOffsetAddLength(eo, len) == (eo + len) % 256

\* mutant of ScratchMatches: the end offset is not compared
ScratchMatchesAddressOnly(ra, a, rl, eo) == ra = a

\* mutant of ReturnAddressHigh: the second byte is not shifted
ReturnAddressHighNoShift(ra, b) == BitOr(ra, b % 65536)

\* uint16_t returnaddress = (uint16_t)readByte(pin)
ReturnAddressLow(b) == b % 65536

\* returnaddress |= (uint16_t)readByte(pin) << 8
ReturnAddressHigh(ra, b) == BitOr(ra, (b * 256) % 65536)

\* uint8_t endoffset = address & 0x1F
EndOffsetInit(a) == BitAnd(a, 31) % 256

\* endoffset += length - 1
EndOffsetAdd(eo, len) == (eo + len - 1) % 256

\* returnaddress == address && returnlen == endoffset
ScratchMatches(ra, a, rl, eo) == ra = a /\ rl = eo

----------------------------------------------------------------------------
(* Line events and control helpers *)

Ev(k, v) == [k |-> k, v |-> v, fn |-> fn]

R(lvl) == <<Ev("reset", lvl)>>
W(b) == <<Ev("w", OnWire(b))>>
WA(a) == W(writeAddr(a)[1]) \o W(writeAddr(a)[2])
Rd(v) == <<Ev("r", v)>>
D(us) == <<Ev("delay", us)>>

Goto(l) == pc' = l /\ UNCHANGED <<fn, stack>>

Step(from, to, evs) == pc = from /\ line' = line \o evs /\ Goto(to)

Entry(f) ==
    CASE f = "oneShotConvert" -> "273"
      [] f = "setRTC" -> "328"
      [] f = "clearMem" -> "376"
      [] f = "missionStart" -> "389"
      [] f = "verifyScratch" -> "295"
      [] f = "commitScratch" -> "311"

\* mutant of Return: instead of returning to its caller the operation starts over
ReturnRetry ==
    IF stack = <<>>
    THEN fn' = fn /\ pc' = Entry(fn) /\ stack' = stack
    ELSE fn' = Head(stack)[1] /\ pc' = Head(stack)[2] /\ stack' = Tail(stack)

Return ==
    IF stack = <<>>
    THEN fn' = "idle" /\ pc' = "0" /\ stack' = stack
    ELSE fn' = Head(stack)[1] /\ pc' = Head(stack)[2] /\ stack' = Tail(stack)

CallFn(f, entry, a, len, ret) ==
    /\ fn' = f /\ pc' = entry
    /\ stack' = <<<<fn, ret>>>> \o stack
    /\ address' = a /\ length' = len

----------------------------------------------------------------------------
Init ==
    /\ op = "none" /\ fn = "idle" /\ pc = "0" /\ stack = <<>>
    /\ line = <<>>
    /\ check = 1
    /\ tm = NoTime /\ delay = 0 /\ creg = 0
    /\ address = 0 /\ length = 0
    /\ returnaddress = 0 /\ returnlen = 0 /\ endoffset = 0
    /\ vret = FALSE
    /\ temperature = 0
    /\ byte = 0 /\ wire = <<>> /\ got = 0

Ops == {"oneShotConvert", "setRTC", "clearMem", "missionStart",
        "verifyScratch", "commitScratch"}

\* A caller invokes one of the functions; locals start as their declarations
\* say.  The functions keep no state between invocations (the only global,
\* targetpin, is never written), so one invocation from the initial state
\* stands for every invocation.
Call ==
    /\ fn = "idle" /\ op = "none"
    /\ \E f \in Ops, a \in Addresses, len \in Lengths, d \in Delays, c \in Cregs :
        /\ op' = f /\ fn' = f /\ pc' = Entry(f) /\ stack' = <<>>
        /\ line' = <<>>
        /\ address' = (IF f \in {"verifyScratch", "commitScratch"} THEN a ELSE 0)
        /\ length' = (IF f \in {"verifyScratch", "commitScratch"} THEN len ELSE 0)
        /\ delay' = (IF f = "missionStart" THEN d ELSE 0)
        /\ creg' = (IF f = "missionStart" THEN c ELSE 0)
    /\ check' = 1 /\ tm' = NoTime
    /\ returnaddress' = 0 /\ returnlen' = 0 /\ endoffset' = 0
    /\ vret' = FALSE /\ temperature' = 0
    /\ UNCHANGED loop

oneShotConvert ==
    /\ fn = "oneShotConvert"
    /\ UNCHANGED <<op, opArgs, scratchArgs, scratchLocals, vret, loop>>
    /\ \/ /\ pc = "273"
          /\ \E lvl \in Levels : check' = lvl /\ line' = line \o R(lvl)
          /\ Goto("274") /\ UNCHANGED temperature
       \/ /\ pc = "274" /\ check = HIGH
          /\ temperature' = Sentinel /\ Return /\ UNCHANGED <<line, check>>
       \/ /\ pc = "274" /\ check # HIGH
          /\ Goto("275") /\ UNCHANGED <<line, check, temperature>>
       \/ Step("275", "276", W(SKIPROM)) /\ UNCHANGED <<check, temperature>>
       \/ Step("276", "277", W(CONVERTTEMP)) /\ UNCHANGED <<check, temperature>>
       \/ Step("277", "279", D(200)) /\ UNCHANGED <<check, temperature>>
       \/ /\ pc = "279"
          /\ \E lvl \in Levels : check' = lvl /\ line' = line \o R(lvl)
          /\ Goto("280") /\ UNCHANGED temperature
       \/ /\ pc = "280" /\ check = HIGH
          /\ temperature' = Sentinel /\ Return /\ UNCHANGED <<line, check>>
       \/ /\ pc = "280" /\ check # HIGH
          /\ Goto("281") /\ UNCHANGED <<line, check, temperature>>
       \/ Step("281", "282", W(SKIPROM)) /\ UNCHANGED <<check, temperature>>
       \/ Step("282", "283", W(READMEM)) /\ UNCHANGED <<check, temperature>>
       \/ Step("283", "284", WA(TEMPADDR)) /\ UNCHANGED <<check, temperature>>
       \/ /\ pc = "284"
          /\ \E bits \in DeviceBits(AllBytes) :
                /\ line' = line \o Rd(readByte(bits))
                /\ temperature' = Decode(readByte(bits))
          /\ Goto("285") /\ UNCHANGED check
       \/ /\ pc = "285" /\ Return /\ UNCHANGED <<line, check, temperature>>

verifyScratch ==
    /\ fn = "verifyScratch"
    /\ UNCHANGED <<op, opArgs, scratchArgs, check, temperature, loop>>
    /\ \/ /\ pc = "295"
          /\ \E lvl \in Levels : line' = line \o R(lvl)
          /\ Goto("296") /\ UNCHANGED <<scratchLocals, vret>>
       \/ Step("296", "297", W(SKIPROM)) /\ UNCHANGED <<scratchLocals, vret>>
       \/ Step("297", "298", W(READSCRATCH)) /\ UNCHANGED <<scratchLocals, vret>>
       \/ /\ pc = "298"
          /\ \E bits \in DeviceBits(ReadVals) :
                /\ line' = line \o Rd(readByte(bits))
                /\ returnaddress' = ReturnAddressLow(readByte(bits))
          /\ Goto("299") /\ UNCHANGED <<returnlen, endoffset, vret>>
       \/ /\ pc = "299"
          /\ \E bits \in DeviceBits(ReadVals) :
                /\ line' = line \o Rd(readByte(bits))
                /\ returnaddress' =
                      ReturnAddressHigh(returnaddress, readByte(bits))
          /\ Goto("300") /\ UNCHANGED <<returnlen, endoffset, vret>>
       \/ /\ pc = "300"
          /\ \E bits \in DeviceBits(ReadVals) :
                /\ line' = line \o Rd(readByte(bits))
                /\ returnlen' = readByte(bits) % 256
          /\ Goto("301") /\ UNCHANGED <<returnaddress, endoffset, vret>>
       \/ /\ pc = "301"
          /\ endoffset' = EndOffsetInit(address)
          /\ Goto("302") /\ UNCHANGED <<line, returnaddress, returnlen, vret>>
       \/ /\ pc = "302"
          /\ endoffset' = EndOffsetAdd(endoffset, length)
          /\ Goto("303") /\ UNCHANGED <<line, returnaddress, returnlen, vret>>
       \/ /\ pc = "303"
          /\ vret' = ScratchMatches(returnaddress, address, returnlen, endoffset)
          /\ Return /\ UNCHANGED <<line, scratchLocals>>

commitScratch ==
    /\ fn = "commitScratch"
    /\ UNCHANGED <<op, opArgs, scratchArgs, check, temperature, loop,
                   returnaddress, returnlen, vret>>
    /\ \/ /\ pc = "311"
          /\ endoffset' = EndOffsetInit(address)
          /\ Goto("312") /\ UNCHANGED line
       \/ /\ pc = "312"
          /\ endoffset' = EndOffsetAdd(endoffset, length)
          /\ Goto("313") /\ UNCHANGED line
       \/ /\ pc = "313"
          /\ \E lvl \in Levels : line' = line \o R(lvl)
          /\ Goto("314") /\ UNCHANGED endoffset
       \/ Step("314", "315", W(SKIPROM)) /\ UNCHANGED endoffset
       \/ Step("315", "316", W(COPYSCRATCH)) /\ UNCHANGED endoffset
       \/ Step("316", "317", WA(address)) /\ UNCHANGED endoffset
       \/ Step("317", "318", W(endoffset)) /\ UNCHANGED endoffset
       \/ Step("318", "319", D(100)) /\ UNCHANGED endoffset
       \/ /\ pc = "319" /\ Return /\ UNCHANGED <<line, endoffset>>

setRTC ==
    /\ fn = "setRTC"
    /\ UNCHANGED <<op, delay, creg, scratchLocals, vret, temperature, loop>>
    /\ \/ /\ pc = "328"
          /\ \E lvl \in Levels : check' = lvl /\ line' = line \o R(lvl)
          /\ Goto("329") /\ UNCHANGED <<tm, scratchArgs>>
       \/ /\ pc = "329" /\ check = HIGH
          /\ Return /\ UNCHANGED <<line, check, tm, scratchArgs>>
       \/ /\ pc = "329" /\ check # HIGH
          /\ Goto("333") /\ UNCHANGED <<line, check, tm, scratchArgs>>
       \/ Step("333", "334", W(SKIPROM)) /\ UNCHANGED <<check, tm, scratchArgs>>
       \/ Step("334", "335", W(WRITESCRATCH)) /\ UNCHANGED <<check, tm, scratchArgs>>
       \/ Step("335", "337", WA(RTCSECONDS)) /\ UNCHANGED <<check, tm, scratchArgs>>
       \/ /\ pc = "337"
          /\ tm' \in Times
          /\ Goto("344") /\ UNCHANGED <<line, check, scratchArgs>>
       \/ Step("344", "350", W(Bcd(tm.sec))) /\ UNCHANGED <<check, tm, scratchArgs>>
       \/ Step("350", "356", W(Bcd(tm.min))) /\ UNCHANGED <<check, tm, scratchArgs>>
       \/ Step("356", "359", W(HourByte(tm.hour))) /\ UNCHANGED <<check, tm, scratchArgs>>
       \/ Step("359", "364", W(WdayByte(tm.wday))) /\ UNCHANGED <<check, tm, scratchArgs>>
       \/ Step("364", "369", W(MonthByte(tm.mon))) /\ UNCHANGED <<check, tm, scratchArgs>>
       \/ Step("369", "371", W(YearByte(tm.year))) /\ UNCHANGED <<check, tm, scratchArgs>>
       \/ /\ pc = "371"
          /\ CallFn("verifyScratch", "295", RTCSECONDS, 7, "371if")
          /\ UNCHANGED <<line, check, tm>>
       \/ /\ pc = "371if" /\ vret
          /\ CallFn("commitScratch", "311", RTCSECONDS, 7, "373")
          /\ UNCHANGED <<line, check, tm>>
       \/ /\ pc = "371if" /\ ~vret
          /\ Goto("373") /\ UNCHANGED <<line, check, tm, scratchArgs>>
       \/ /\ pc = "373" /\ Return /\ UNCHANGED <<line, check, tm, scratchArgs>>

clearMem ==
    /\ fn = "clearMem"
    /\ UNCHANGED <<op, opArgs, check, scratchLocals, vret, temperature, loop>>
    /\ \/ /\ pc = "376"
          /\ \E lvl \in Levels : line' = line \o R(lvl)
          /\ Goto("377") /\ UNCHANGED scratchArgs
       \/ Step("377", "378", W(SKIPROM)) /\ UNCHANGED scratchArgs
       \/ Step("378", "379", W(WRITESCRATCH)) /\ UNCHANGED scratchArgs
       \/ Step("379", "380", WA(CONTROLREG)) /\ UNCHANGED scratchArgs
       \/ Step("380", "381", W(ENABLECLR)) /\ UNCHANGED scratchArgs
       \/ /\ pc = "381"
          /\ CallFn("verifyScratch", "295", CONTROLREG, 1, "381if")
          /\ UNCHANGED line
       \/ /\ pc = "381if" /\ vret
          /\ CallFn("commitScratch", "311", CONTROLREG, 1, "382")
          /\ UNCHANGED line
       \/ /\ pc = "381if" /\ ~vret
          /\ Goto("382") /\ UNCHANGED <<line, scratchArgs>>
       \/ /\ pc = "382"
          /\ \E lvl \in Levels : line' = line \o R(lvl)
          /\ Goto("383") /\ UNCHANGED scratchArgs
       \/ Step("383", "384", W(SKIPROM)) /\ UNCHANGED scratchArgs
       \/ Step("384", "385", W(CLEARMEM)) /\ UNCHANGED scratchArgs
       \/ /\ pc = "385"
          /\ \E lvl \in Levels : line' = line \o R(lvl)
          /\ Goto("386") /\ UNCHANGED scratchArgs
       \/ /\ pc = "386" /\ Return /\ UNCHANGED <<line, scratchArgs>>

missionStart ==
    /\ fn = "missionStart"
    /\ UNCHANGED <<op, opArgs, check, scratchLocals, vret, temperature, loop>>
    /\ \/ /\ pc = "389"
          /\ \E lvl \in Levels : line' = line \o R(lvl)
          /\ Goto("390") /\ UNCHANGED scratchArgs
       \/ Step("390", "391", W(SKIPROM)) /\ UNCHANGED scratchArgs
       \/ Step("391", "392", W(WRITESCRATCH)) /\ UNCHANGED scratchArgs
       \/ Step("392", "393", WA(CONTROLREG)) /\ UNCHANGED scratchArgs
       \/ Step("393", "394", W(creg)) /\ UNCHANGED scratchArgs
       \/ Step("394", "395", W(0)) /\ UNCHANGED scratchArgs
       \/ Step("395", "396", W(0)) /\ UNCHANGED scratchArgs
       \/ Step("396", "397", W(0)) /\ UNCHANGED scratchArgs
       \/ Step("397", "399", WA(delay)) /\ UNCHANGED scratchArgs
       \/ /\ pc = "399"
          /\ CallFn("verifyScratch", "295", CONTROLREG, 6, "399if")
          /\ UNCHANGED line
       \/ /\ pc = "399if" /\ vret
          /\ CallFn("commitScratch", "311", CONTROLREG, 6, "400")
          /\ UNCHANGED line
       \/ /\ pc = "399if" /\ ~vret
          /\ Goto("400") /\ UNCHANGED <<line, scratchArgs>>
       \/ /\ pc = "400"
          /\ \E lvl \in Levels : line' = line \o R(lvl)
          /\ Goto("401") /\ UNCHANGED scratchArgs
       \/ /\ pc = "401" /\ Return /\ UNCHANGED <<line, scratchArgs>>

\* the place of a statement label in the source: ten times its line number,
\* plus five for the test that follows the call on that line
LineOf(p) ==
    CASE p = "273" -> 2730
      [] p = "274" -> 2740
      [] p = "275" -> 2750
      [] p = "276" -> 2760
      [] p = "277" -> 2770
      [] p = "279" -> 2790
      [] p = "280" -> 2800
      [] p = "281" -> 2810
      [] p = "282" -> 2820
      [] p = "283" -> 2830
      [] p = "284" -> 2840
      [] p = "285" -> 2850
      [] p = "295" -> 2950
      [] p = "296" -> 2960
      [] p = "297" -> 2970
      [] p = "298" -> 2980
      [] p = "299" -> 2990
      [] p = "300" -> 3000
      [] p = "301" -> 3010
      [] p = "302" -> 3020
      [] p = "303" -> 3030
      [] p = "311" -> 3110
      [] p = "312" -> 3120
      [] p = "313" -> 3130
      [] p = "314" -> 3140
      [] p = "315" -> 3150
      [] p = "316" -> 3160
      [] p = "317" -> 3170
      [] p = "318" -> 3180
      [] p = "319" -> 3190
      [] p = "328" -> 3280
      [] p = "329" -> 3290
      [] p = "333" -> 3330
      [] p = "334" -> 3340
      [] p = "335" -> 3350
      [] p = "337" -> 3370
      [] p = "344" -> 3440
      [] p = "350" -> 3500
      [] p = "356" -> 3560
      [] p = "359" -> 3590
      [] p = "364" -> 3640
      [] p = "369" -> 3690
      [] p = "371" -> 3710
      [] p = "371if" -> 3715
      [] p = "373" -> 3730
      [] p = "376" -> 3760
      [] p = "377" -> 3770
      [] p = "378" -> 3780
      [] p = "379" -> 3790
      [] p = "380" -> 3800
      [] p = "381" -> 3810
      [] p = "381if" -> 3815
      [] p = "382" -> 3820
      [] p = "383" -> 3830
      [] p = "384" -> 3840
      [] p = "385" -> 3850
      [] p = "386" -> 3860
      [] p = "389" -> 3890
      [] p = "390" -> 3900
      [] p = "391" -> 3910
      [] p = "392" -> 3920
      [] p = "393" -> 3930
      [] p = "394" -> 3940
      [] p = "395" -> 3950
      [] p = "396" -> 3960
      [] p = "397" -> 3970
      [] p = "399" -> 3990
      [] p = "399if" -> 3995
      [] p = "400" -> 4000
      [] p = "401" -> 4010

Next ==
    \/ Call
    \/ oneShotConvert
    \/ setRTC
    \/ clearMem
    \/ missionStart
    \/ verifyScratch
    \/ commitScratch

Spec == Init /\ [][Next]_vars

----------------------------------------------------------------------------
(* Loop-back harness of the byte codec: writeByte's slots are replayed to   *)
(* readByte by a peer that echoes the line.                                 *)

LoopInit ==
    /\ op = "loopback" /\ fn = "writeByte" /\ pc = "212" /\ stack = <<>>
    /\ line = <<>>
    /\ check = 1
    /\ tm = NoTime /\ delay = 0 /\ creg = 0
    /\ address = 0 /\ length = 0
    /\ returnaddress = 0 /\ returnlen = 0 /\ endoffset = 0
    /\ vret = FALSE
    /\ temperature = 0
    /\ byte \in AllBytes /\ wire = <<>> /\ got = 0

LoopWrite ==
    /\ fn = "writeByte"
    /\ wire' = writeByte(byte)
    /\ fn' = "readByte" /\ pc' = "235"
    /\ UNCHANGED <<op, stack, line, check, opArgs, scratchArgs, scratchLocals,
                   vret, temperature, byte, got>>

LoopRead ==
    /\ fn = "readByte"
    /\ got' = readByte(wire)
    /\ fn' = "returned" /\ pc' = "242"
    /\ UNCHANGED <<op, stack, line, check, opArgs, scratchArgs, scratchLocals,
                   vret, temperature, byte, wire>>

LoopNext == LoopWrite \/ LoopRead

LoopSpec == LoopInit /\ [][LoopNext]_vars

----------------------------------------------------------------------------
(* Bit-level transceiver: writeBit, readBit and reset executed statement   *)
(* by statement on the pin.  Here line records the calls of the bcm2835    *)
(* library: fsel (direction), write (driven level), delay (microseconds)   *)
(* and lev (a sampled level), byte holds writeBit's argument b and check   *)
(* the local b of readBit / reset.                                         *)

INPT == 0               \* BCM2835_GPIO_FSEL_INPT
OUTP == 1               \* BCM2835_GPIO_FSEL_OUTP

MaxPrims == 3           \* primitives executed one after the other

\* values of the int argument b of writeBit
BitArgs == {0 - 1, 0, 1, 2}

Fsel(mode) == <<Ev("fsel", mode)>>
Write(lvl) == <<Ev("write", lvl)>>
Lev(lvl) == <<Ev("lev", lvl)>>

\* pin primitives called so far: each begins with one fsel(OUTP)
NPrims ==
    Cardinality({k \in 1..Len(line) : line[k].k = "fsel" /\ line[k].v = OUTP})

\* mutant of Delay1: the two low phases are exchanged
Delay1Swapped(b) == IF b = 1 THEN 65 ELSE 10

\* if(b==1) { delay1 = 10; delay2 = 55; } else { delay1 = 65; delay2 = 5; }
Delay1(b) == IF b = 1 THEN 10 ELSE 65
Delay2(b) == IF b = 1 THEN 55 ELSE 5

PinInit ==
    /\ op = "pin" /\ fn = "idle" /\ pc = "0" /\ stack = <<>>
    /\ line = <<>>
    /\ check = 1
    /\ tm = NoTime /\ delay = 0 /\ creg = 0
    /\ address = 0 /\ length = 0
    /\ returnaddress = 0 /\ returnlen = 0 /\ endoffset = 0
    /\ vret = FALSE
    /\ temperature = 0
    /\ byte = 0 /\ wire = <<>> /\ got = 0

pinRest == <<op, opArgs, scratchArgs, scratchLocals, vret, temperature, wire, got>>

PinEntry(f) ==
    CASE f = "writeBit" -> "204"
      [] f = "readBit" -> "225"
      [] f = "reset" -> "245"

\* a caller invokes one of the three primitives
PinCall ==
    /\ fn = "idle" /\ op = "pin" /\ NPrims < MaxPrims
    /\ \E f \in {"writeBit", "readBit", "reset"}, b \in BitArgs :
        /\ fn' = f /\ pc' = PinEntry(f)
        /\ byte' = (IF f = "writeBit" THEN b ELSE byte)
    /\ UNCHANGED <<stack, line, check, pinRest>>

\* mutant of writeBit: the pin is left as an output
writeBitNoRelease ==
    /\ fn = "writeBit"
    /\ UNCHANGED <<check, byte, pinRest>>
    /\ \/ Step("204", "205", Fsel(OUTP))
       \/ Step("205", "206", Write(LOW))
       \/ Step("206", "207", D(Delay1(byte)))
       \/ Step("207", "208", Write(HIGH))
       \/ /\ pc = "208" /\ line' = line \o D(Delay2(byte)) /\ Return

writeBit ==
    /\ fn = "writeBit"
    /\ UNCHANGED <<check, byte, pinRest>>
    /\ \/ Step("204", "205", Fsel(OUTP))
       \/ Step("205", "206", Write(LOW))
       \/ Step("206", "207", D(Delay1(byte)))
       \/ Step("207", "208", Write(HIGH))
       \/ Step("208", "209", D(Delay2(byte)))
       \/ /\ pc = "209" /\ line' = line \o Fsel(INPT) /\ Return

readBit ==
    /\ fn = "readBit"
    /\ UNCHANGED <<byte, pinRest>>
    /\ \/ Step("225", "226", Fsel(OUTP)) /\ UNCHANGED check
       \/ Step("226", "227", Write(LOW)) /\ UNCHANGED check
       \/ Step("227", "228", D(5)) /\ UNCHANGED check
       \/ Step("228", "229", Fsel(INPT)) /\ UNCHANGED check
       \/ Step("229", "230", D(10)) /\ UNCHANGED check
       \/ /\ pc = "230"
          /\ \E lvl \in Levels : check' = lvl /\ line' = line \o Lev(lvl)
          /\ Goto("231")
       \/ Step("231", "232", D(53)) /\ UNCHANGED check
       \/ /\ pc = "232" /\ Return /\ UNCHANGED <<line, check>>

reset ==
    /\ fn = "reset"
    /\ UNCHANGED <<byte, pinRest>>
    /\ \/ Step("245", "246", Fsel(OUTP)) /\ UNCHANGED check
       \/ Step("246", "247", Write(LOW)) /\ UNCHANGED check
       \/ Step("247", "248", D(480)) /\ UNCHANGED check
       \/ Step("248", "249", Fsel(INPT)) /\ UNCHANGED check
       \/ Step("249", "250", D(70)) /\ UNCHANGED check
       \/ /\ pc = "250"
          /\ \E lvl \in Levels : check' = lvl /\ line' = line \o Lev(lvl)
          /\ Goto("251")
       \/ Step("251", "252", D(410)) /\ UNCHANGED check
       \/ /\ pc = "252" /\ Return /\ UNCHANGED <<line, check>>

PinNext == PinCall \/ writeBit \/ readBit \/ reset

PinSpec == PinInit /\ [][PinNext]_vars

----------------------------------------------------------------------------
(* Echo harness of the address codec: the two bytes writeAddr puts on the  *)
(* line are read back unchanged by the two readByte calls with which       *)
(* verifyScratch assembles returnaddress.  wire holds the slots of the     *)
(* two bytes.                                                              *)

EchoAddresses == 0..65535

EchoInit ==
    /\ op = "echo" /\ fn = "writeAddr" /\ pc = "263" /\ stack = <<>>
    /\ line = <<>>
    /\ check = 1
    /\ tm = NoTime /\ delay = 0 /\ creg = 0
    /\ address \in EchoAddresses /\ length = 0
    /\ returnaddress = 0 /\ returnlen = 0 /\ endoffset = 0
    /\ vret = FALSE
    /\ temperature = 0
    /\ byte = 0 /\ wire = <<>> /\ got = 0

echoRest == <<op, stack, line, check, opArgs, scratchArgs, returnlen, endoffset,
              vret, temperature, byte, got>>

EchoWrite ==
    /\ fn = "writeAddr"
    /\ wire' = <<writeByte(writeAddr(address)[1]), writeByte(writeAddr(address)[2])>>
    /\ fn' = "verifyScratch" /\ pc' = "298"
    /\ UNCHANGED <<returnaddress, echoRest>>

EchoReadLow ==
    /\ fn = "verifyScratch" /\ pc = "298"
    /\ returnaddress' = ReturnAddressLow(readByte(wire[1]))
    /\ pc' = "299"
    /\ UNCHANGED <<fn, wire, echoRest>>

EchoReadHigh ==
    /\ fn = "verifyScratch" /\ pc = "299"
    /\ returnaddress' = ReturnAddressHigh(returnaddress, readByte(wire[2]))
    /\ pc' = "300"
    /\ UNCHANGED <<fn, wire, echoRest>>

EchoNext == EchoWrite \/ EchoReadLow \/ EchoReadHigh

EchoSpec == EchoInit /\ [][EchoNext]_vars

----------------------------------------------------------------------------
(* Reading the line record *)

ScratchOps == {"setRTC", "clearMem", "missionStart"}
PresenceOps == {"oneShotConvert", "setRTC", "clearMem", "missionStart"}

IsW(k, b) == line[k].k = "w" /\ line[k].v = b
IsReset(k) == line[k].k = "reset"

\* the bytes read so far, in the order read
Reads == SelectSeq(line, LAMBDA e : e.k = "r")

\* positions of the copy-scratchpad command: reset, skip-ROM, 0x55
CopyAt == {k \in 3..Len(line) : IsReset(k - 2) /\ IsW(k - 1, 204) /\ IsW(k, 85)}

\* line activity of commitScratch
CommitEvents == {k \in 1..Len(line) : line[k].fn = "commitScratch"}

\* the transaction each operation states in its verifyScratch / commitScratch calls
TxnAddress(o) == IF o = "setRTC" THEN 512 ELSE 526
TxnLength(o) == IF o = "setRTC" THEN 7 ELSE IF o = "clearMem" THEN 1 ELSE 6

\* bytes written by the operation itself after skip-ROM, write-scratchpad and
\* the two address bytes
PayloadCount ==
    Cardinality({k \in 1..Len(line) : line[k].k = "w" /\ line[k].fn = op}) - 4

----------------------------------------------------------------------------
(* C1: in setRTC, clearMem and missionStart, whatever the device reads     *)
(* back, the copy-scratchpad command is on the line only after all three   *)
(* readback bytes were read and matched: address (low byte first) equal to *)
(* the transaction's address and end offset equal to                       *)
(* (address & 0x1F) + length - 1.  On a mismatch commitScratch does        *)
(* nothing on the line.                                                    *)
C1_ReadbackMatches ==
    /\ Len(Reads) = 3
    /\ Reads[1].v + 256 * Reads[2].v = TxnAddress(op)
    /\ Reads[3].v = (TxnAddress(op) % 32) + TxnLength(op) - 1

C1_CommitOnlyIfVerified ==
    op \in ScratchOps =>
        /\ (CopyAt # {} \/ CommitEvents # {}) => C1_ReadbackMatches
        /\ (Len(Reads) = 3 /\ ~C1_ReadbackMatches) =>
               (CopyAt = {} /\ CommitEvents = {})

\* an operation returned after the device echoed the right address and a
\* wrong end offset, and nothing was committed
C1_Witness ==
    /\ op \in ScratchOps /\ fn = "idle"
    /\ Len(Reads) = 3
    /\ Reads[1].v + 256 * Reads[2].v = TxnAddress(op)
    /\ Reads[3].v # (TxnAddress(op) % 32) + TxnLength(op) - 1
    /\ CommitEvents = {}

(* C2: in oneShotConvert, setRTC, clearMem and missionStart, when the      *)
(* first reset samples HIGH nothing more happens on the line.              *)
C2_AbortOnNoPresence ==
    (op \in PresenceOps /\ Len(line) >= 1 /\ IsReset(1) /\ line[1].v = HIGH)
        => Len(line) = 1

(* C3: in a scratchpad transaction, a reset made by verifyScratch or       *)
(* commitScratch that samples HIGH is the last line activity.              *)
C3_LaterResetsChecked ==
    op \in ScratchOps =>
        \A k \in 2..Len(line) :
            (IsReset(k) /\ line[k].fn \in {"verifyScratch", "commitScratch"}
                /\ line[k].v = HIGH) => k = Len(line)

(* C4: for an address and length that cross the 32-byte page,              *)
(* (address & 0x1F) + length - 1 > 0x1F, verifyScratch and commitScratch   *)
(* write no byte on the line.                                              *)
C4_PageCrossingRejected ==
    (op \in {"verifyScratch", "commitScratch"}
        /\ (address % 32) + length - 1 > 31)
        => \A k \in 1..Len(line) : line[k].k # "w"

(* C5: when a scratchpad-transaction operation calls verifyScratch, the    *)
(* number of payload bytes it wrote equals the length it passes.           *)
C5_PayloadEqualsLength ==
    (op \in ScratchOps /\ fn = "verifyScratch") => PayloadCount = length

(* C6: verifyScratch returns true exactly when the address read back, low  *)
(* byte first, equals address and the third byte read equals               *)
(* (address & 0x1F) + length - 1; for 0x0200 and length 7 exactly the      *)
(* readback 0x00, 0x02, 0x06 is accepted.                                  *)
C6_VerifyIffMatch ==
    (Len(Reads) = 3 /\ fn # "verifyScratch") =>
        /\ vret <=> (/\ Reads[1].v + 256 * Reads[2].v = address
                     /\ Reads[3].v = (address % 32) + length - 1)
        /\ (address = 512 /\ length = 7) =>
               (vret <=> (Reads[1].v = 0 /\ Reads[2].v = 2 /\ Reads[3].v = 6))

\* verifyScratch(0x0200, 7) returned true
C6_Witness ==
    /\ op = "verifyScratch" /\ fn = "idle"
    /\ address = 512 /\ length = 7 /\ vret
    /\ Len(Reads) = 3

(* C7: after writeByte(byte) and a readByte that samples the slots         *)
(* writeByte produced, readByte returns byte; eight bits are transferred,  *)
(* bit i of byte in slot i (least significant first).                      *)
C7_RoundTrip ==
    fn = "returned" =>
        /\ got = byte
        /\ Len(wire) = 8
        /\ \A i \in 1..8 : wire[i] = (byte \div 2^(i - 1)) % 2

\* the byte 0x01 made the round trip
C7_Witness == fn = "returned" /\ byte = 1 /\ got = 1 /\ wire[1] = 1

(* C8: the line activity of oneShotConvert is at every moment a prefix of  *)
(* reset, 0xCC, 0x44, wait >= 200 us, reset, 0xCC, 0xF0, 0x11, 0x02, one   *)
(* byte read; and it is the whole of it once the function has returned     *)
(* with both resets sampled LOW.                                           *)
C8_Shape(e) ==
    IF e.k \in {"reset", "r"} THEN <<e.k, 0>>
    ELSE IF e.k = "delay" /\ e.v >= 200 THEN <<e.k, 200>>
    ELSE <<e.k, e.v>>

C8_Recipe ==
    << <<"reset", 0>>, <<"w", 204>>, <<"w", 68>>, <<"delay", 200>>,
       <<"reset", 0>>, <<"w", 204>>, <<"w", 240>>, <<"w", 17>>, <<"w", 2>>,
       <<"r", 0>> >>

C8_ConvertSequence ==
    op = "oneShotConvert" =>
        /\ Len(line) <= Len(C8_Recipe)
        /\ \A k \in 1..Len(line) : C8_Shape(line[k]) = C8_Recipe[k]
        /\ (fn = "idle" /\ Len(line) >= 5 /\ line[1].v = LOW /\ line[5].v = LOW)
               => Len(line) = Len(C8_Recipe)

\* a conversion that passed both presence checks has returned
C8_Witness ==
    /\ op = "oneShotConvert" /\ fn = "idle"
    /\ Len(line) = 10 /\ line[1].v = LOW /\ line[5].v = LOW

(* C9: oneShotConvert returns -100 (-200 half degrees) when one of its two *)
(* resets sampled HIGH; otherwise it returns raw - 80 half degrees, which  *)
(* lies in [-80, 175] (-40.0 .. 87.5) and is never the sentinel.           *)
C9_SentinelOnlyOnFailure ==
    (op = "oneShotConvert" /\ fn = "idle") =>
        LET failed == \E k \in 1..Len(line) : IsReset(k) /\ line[k].v = HIGH
            raw == line[Len(line)].v
        IN  /\ failed => temperature = 0 - 200
            /\ ~failed =>
                  /\ line[Len(line)].k = "r"
                  /\ temperature = raw - 80
                  /\ temperature >= 0 - 80 /\ temperature <= 175
                  /\ temperature # 0 - 200
                  /\ (raw = 0 => temperature = 0 - 80)
                  /\ (raw = 80 => temperature = 0)
                  /\ (raw = 255 => temperature = 175)

\* a conversion read the raw byte 0xFF and returned 87.5
C9_Witness ==
    /\ op = "oneShotConvert" /\ fn = "idle"
    /\ Len(line) = 10 /\ line[10].v = 255 /\ temperature = 175

(* C10: in clearMem the clear-memory command 0x3C is on the line only      *)
(* after the transaction was verified and its copy-scratchpad command      *)
(* sent, and the last line activity of a returned clearMem is a reset      *)
(* right after that command.                                               *)
C10_ClearAfterCommit ==
    op = "clearMem" =>
        /\ \A k \in 1..Len(line) :
              (IsW(k, 60) /\ line[k].fn = "clearMem") =>
                  (vret /\ \E j \in CopyAt : j < k)
        /\ fn = "idle" =>
              (IsReset(Len(line)) /\ IsW(Len(line) - 1, 60))

(* C11: a returned writeBit(b) drove the pin low for 10 us and then high    *)
(* for 55 us when b = 1, and low for 65 us and then high for 5 us for      *)
(* every other b; the low phase is the shorter one exactly for b = 1, and  *)
(* the two phases add up to at least 60 us.                                *)
C11_LastSlot == SubSeq(line, Len(line) - 5, Len(line))

C11_WriteSlotShape ==
    (op = "pin" /\ fn = "idle" /\ Len(line) >= 6
        /\ line[Len(line)].fn = "writeBit") =>
        LET s == C11_LastSlot
            low == s[3].v
            high == s[5].v
        IN  /\ s[1].k = "fsel" /\ s[1].v = 1
            /\ s[2].k = "write" /\ s[2].v = 0
            /\ s[3].k = "delay"
            /\ s[4].k = "write" /\ s[4].v = 1
            /\ s[5].k = "delay"
            /\ s[6].k = "fsel" /\ s[6].v = 0
            /\ \A i \in 1..6 : s[i].fn = "writeBit"
            /\ low + high >= 60
            /\ (byte = 1 => low = 10 /\ high = 55 /\ low < high)
            /\ (byte # 1 => low = 65 /\ high = 5 /\ low > high)

\* writeBit(2) has returned: an argument that is neither 0 nor 1
C11_Witness ==
    /\ op = "pin" /\ fn = "idle" /\ Len(line) >= 6
    /\ line[Len(line)].fn = "writeBit" /\ byte = 2

(* C20: whenever writeBit, readBit or reset has returned, the last fsel    *)
(* call configured the pin as input; every lev (sample) is made with the   *)
(* pin configured as input; and reset is fsel(out), write(low), 480 us,    *)
(* fsel(in), 70 us, lev, 410 us while readBit is fsel(out), write(low),    *)
(* 5 us, fsel(in), 10 us, lev, 53 us.                                      *)
C20_Fsels(upto) == SelectSeq(SubSeq(line, 1, upto), LAMBDA e : e.k = "fsel")

C20_Shape(e) == IF e.k = "lev" THEN <<e.k, 0>> ELSE <<e.k, e.v>>

C20_Template(f) ==
    IF f = "reset"
    THEN << <<"fsel", 1>>, <<"write", 0>>, <<"delay", 480>>, <<"fsel", 0>>,
            <<"delay", 70>>, <<"lev", 0>>, <<"delay", 410>> >>
    ELSE << <<"fsel", 1>>, <<"write", 0>>, <<"delay", 5>>, <<"fsel", 0>>,
            <<"delay", 10>>, <<"lev", 0>>, <<"delay", 53>> >>

C20_ReleasedAndSampledAsInput ==
    op = "pin" =>
        /\ (fn = "idle" /\ Len(line) > 0) =>
              LET f == C20_Fsels(Len(line)) IN f[Len(f)].v = 0
        /\ \A k \in 1..Len(line) :
              line[k].k = "lev" =>
                  LET f == C20_Fsels(k) IN Len(f) > 0 /\ f[Len(f)].v = 0
        /\ \A k \in 1..Len(line) :
              (line[k].k = "fsel" /\ line[k].v = 1
                  /\ line[k].fn \in {"reset", "readBit"}) =>
                  /\ \A i \in 0..6 :
                        k + i <= Len(line) =>
                            /\ line[k + i].fn = line[k].fn
                            /\ C20_Shape(line[k + i]) = C20_Template(line[k].fn)[i + 1]
                  /\ fn = "idle" => k + 6 <= Len(line)

\* a reset, then a writeBit and a readBit have all returned
C20_Witness ==
    /\ op = "pin" /\ fn = "idle" /\ Len(line) = 20
    /\ line[1].fn = "reset" /\ line[8].fn = "writeBit" /\ line[14].fn = "readBit"

(* C12: the seconds byte and the minutes byte setRTC writes (the sixth and *)
(* seventh line events) are ((v / 10) << 4) | (v % 10) for the tm_sec and  *)
(* tm_min it got, for every value 0..59; 45 gives 0x45 and 59 gives 0x59.  *)
C12_PackedBcd(v) == (v \div 10) * 16 + (v % 10)

C12_SecondsMinutesBcd ==
    op = "setRTC" =>
        /\ Len(line) >= 6 =>
              /\ line[6].k = "w" /\ line[6].v = C12_PackedBcd(tm.sec)
              /\ (tm.sec = 45 => line[6].v = 69)
              /\ (tm.sec = 59 => line[6].v = 89)
        /\ Len(line) >= 7 =>
              /\ line[7].k = "w" /\ line[7].v = C12_PackedBcd(tm.min)
              /\ (tm.min = 45 => line[7].v = 69)
              /\ (tm.min = 59 => line[7].v = 89)

\* setRTC has written seconds 45 and minutes 59
C12_Witness ==
    /\ op = "setRTC" /\ Len(line) >= 7
    /\ tm.sec = 45 /\ tm.min = 59
    /\ line[6].v = 69 /\ line[7].v = 89

(* C13: the hours byte setRTC writes (the eighth line event) has tm_hour   *)
(* % 10 in its low nibble and tm_hour / 10 in bits 4 and 5, for every hour *)
(* 0..23.                                                                  *)
C13_HoursBcd24 ==
    (op = "setRTC" /\ Len(line) >= 8) =>
        /\ line[8].k = "w"
        /\ line[8].v % 16 = tm.hour % 10
        /\ (line[8].v \div 16) % 4 = tm.hour \div 10

(* C14: the line activity of missionStart begins reset, 0xCC, 0x0F, 0x0E,  *)
(* 0x02 and then the six payload bytes creg, 0, 0, 0, delay & 0xFF,        *)
(* delay >> 8, written before verifyScratch is called; counting from the   *)
(* target address 0x020E the two delay bytes fall on 0x0212 and 0x0213.    *)
C14_Recipe ==
    << <<"reset", 0>>, <<"w", 204>>, <<"w", 15>>, <<"w", 14>>, <<"w", 2>>,
       <<"w", creg>>, <<"w", 0>>, <<"w", 0>>, <<"w", 0>>,
       <<"w", delay % 256>>, <<"w", delay \div 256>> >>

C14_Shape(e) == IF e.k = "reset" THEN <<e.k, 0>> ELSE <<e.k, e.v>>

\* the device address the k-th line event of missionStart is written to
C14_TargetOf(k) == 526 + (k - 6)

C14_MissionPayload ==
    op = "missionStart" =>
        /\ \A k \in 1..Len(line) :
              k <= 11 => (/\ C14_Shape(line[k]) = C14_Recipe[k]
                          /\ line[k].fn = "missionStart")
        /\ \A k \in 1..Len(line) :
              (k > 11 /\ k < Len(line)) => line[k].fn # "missionStart"
        /\ fn # "missionStart" => Len(line) >= 11
        /\ C14_TargetOf(10) = 530 /\ C14_TargetOf(11) = 531
        /\ Len(line) >= 11 =>
              line[10].v + 256 * line[11].v = delay

\* missionStart(0x1234, 0x40) has written its payload and called verifyScratch
C14_Witness ==
    /\ op = "missionStart" /\ fn = "verifyScratch"
    /\ delay = 4660 /\ creg = 64 /\ Len(line) >= 11
    /\ line[10].v = 52 /\ line[11].v = 18

(* C15: writeAddr puts exactly two bytes on the line, address & 0xFF and   *)
(* then (address >> 8) & 0xFF, and when they are echoed unchanged the      *)
(* returnaddress verifyScratch assembles equals address, for every 16-bit  *)
(* address.                                                                *)
C15_AddressRoundTrip ==
    (op = "echo" /\ fn = "verifyScratch") =>
        /\ Len(wire) = 2
        /\ readByte(wire[1]) = address % 256
        /\ readByte(wire[2]) = (address \div 256) % 256
        /\ pc = "300" => returnaddress = address

\* 0x0211 was written and read back
C15_Witness ==
    /\ op = "echo" /\ pc = "300" /\ address = 529 /\ returnaddress = 529

(* C16: in every function the line activity starts with a reset, the      *)
(* first byte written after any reset is skip-ROM 0xCC and the second is   *)
(* one of the RAM commands; and in the functions that write no free        *)
(* payload a RAM command value is on the line only directly after reset    *)
(* and skip-ROM.                                                           *)
C16_RamCommands == {15, 170, 85, 240, 60, 68}

C16_SkipRomBeforeCommand ==
    op \in Ops =>
        /\ Len(line) >= 1 => IsReset(1)
        /\ \A k \in 1..Len(line) :
              IsReset(k) =>
                  /\ k + 1 <= Len(line) => IsW(k + 1, 204)
                  /\ k + 2 <= Len(line) =>
                        (line[k + 2].k = "w" /\ line[k + 2].v \in C16_RamCommands)
        /\ op \in {"oneShotConvert", "clearMem", "verifyScratch", "commitScratch"} =>
              \A k \in 1..Len(line) :
                  (line[k].k = "w" /\ line[k].v \in C16_RamCommands) =>
                      (k >= 3 /\ IsReset(k - 2) /\ IsW(k - 1, 204))

\* clearMem has returned after sending write-, read- and copy-scratchpad and
\* clear-memory
C16_Witness ==
    /\ op = "clearMem" /\ fn = "idle" /\ CopyAt # {}
    /\ \E k \in 1..Len(line) : IsW(k, 60)

(* C17: in setRTC, clearMem and missionStart the transaction handed to     *)
(* verifyScratch and commitScratch stays inside the 32-byte page, and the  *)
(* 8-bit endoffset they compute is (address & 0x1F) + length - 1 itself:   *)
(* 0x06, 0x0E and 0x13.                                                    *)
C17_EndOffsetComputed ==
    \/ fn = "verifyScratch" /\ pc = "303"
    \/ fn = "commitScratch" /\ pc \in {"313", "314", "315", "316", "317", "318", "319"}

C17_WithinPage ==
    (op \in ScratchOps /\ fn \in {"verifyScratch", "commitScratch"}) =>
        /\ (address % 32) + length - 1 <= 31
        /\ C17_EndOffsetComputed =>
              /\ endoffset = (address % 32) + length - 1
              /\ endoffset = (IF op = "setRTC" THEN 6
                              ELSE IF op = "clearMem" THEN 14 ELSE 19)

\* missionStart is about to send the end offset 0x13 in commitScratch
C17_Witness ==
    /\ op = "missionStart" /\ fn = "commitScratch" /\ pc = "317"
    /\ endoffset = 19

(* C18: in setRTC, clearMem and missionStart verifyScratch and             *)
(* commitScratch run with the same address and length; after the           *)
(* copy-scratchpad command commitScratch writes the address, low byte      *)
(* first, and the end offset, which are the three bytes verifyScratch read *)
(* back and accepted, and then waits 100 us.                               *)
C18_CommitEchoesVerified ==
    op \in ScratchOps =>
        /\ fn \in {"verifyScratch", "commitScratch"} =>
              (address = TxnAddress(op) /\ length = TxnLength(op))
        /\ \A k \in CopyAt :
              /\ Len(Reads) = 3
              /\ k + 1 <= Len(line) =>
                    (IsW(k + 1, TxnAddress(op) % 256) /\ line[k + 1].v = Reads[1].v)
              /\ k + 2 <= Len(line) =>
                    (IsW(k + 2, TxnAddress(op) \div 256) /\ line[k + 2].v = Reads[2].v)
              /\ k + 3 <= Len(line) =>
                    /\ IsW(k + 3, (TxnAddress(op) % 32) + TxnLength(op) - 1)
                    /\ line[k + 3].v = Reads[3].v
              /\ k + 4 <= Len(line) =>
                    (line[k + 4].k = "delay" /\ line[k + 4].v >= 100)
              /\ \A i \in 0..4 :
                    k + i <= Len(line) => line[k + i].fn = "commitScratch"
              /\ fn # "commitScratch" => k + 4 <= Len(line)

\* clearMem committed its transaction and returned
C18_Witness ==
    /\ op = "clearMem" /\ fn = "idle" /\ CopyAt # {}
    /\ Reads[3].v = 14

(* C19: in one invocation of setRTC, clearMem or missionStart each of the  *)
(* write-, read- and copy-scratchpad commands is sent at most once and no  *)
(* function makes more than 25 line operations; every step of a function   *)
(* moves to a later statement of the same function, calls a function that  *)
(* is not already running, or returns to the place its caller recorded,    *)
(* so that no statement is executed twice and every function returns.      *)
C19_Sent(c) ==
    Cardinality({k \in 3..Len(line) : IsReset(k - 2) /\ IsW(k - 1, 204) /\ IsW(k, c)})

C19_Once ==
    op \in Ops =>
        /\ op \in ScratchOps =>
              (C19_Sent(15) <= 1 /\ C19_Sent(170) <= 1 /\ C19_Sent(85) <= 1)
        /\ Len(line) <= 25

C19_Running == {fn} \cup {stack[i][1] : i \in 1..Len(stack)}

C19_Forward ==
    fn # "idle" =>
        \/ fn' = fn /\ stack' = stack /\ LineOf(pc') > LineOf(pc)
        \/ /\ Len(stack') = Len(stack) + 1
           /\ Tail(stack') = stack
           /\ fn' \notin C19_Running
           /\ Head(stack')[1] = fn
           /\ LineOf(Head(stack')[2]) > LineOf(pc)
        \/ /\ stack # <<>>
           /\ stack' = Tail(stack)
           /\ fn' = Head(stack)[1] /\ pc' = Head(stack)[2]
        \/ stack = <<>> /\ fn' = "idle"

C19_NoRetry == [][C19_Once' /\ C19_Forward]_vars

\* missionStart returned after sending each of the three commands once
C19_Witness ==
    /\ op = "missionStart" /\ fn = "idle"
    /\ C19_Sent(15) = 1 /\ C19_Sent(170) = 1 /\ C19_Sent(85) = 1
    /\ Len(line) = 25

====
